---- MODULE Spec2Model ----
(***************************************************************************)
(* Model of the report-processing pipeline of AI_Monthly_Reporting:        *)
(*   handle_webhook / process_report   (src/src/handlers/webhook.py)       *)
(*   validate_webhook_payload          (src/src/utils/validators.py)       *)
(*   GitHubService                     (src/src/services/github.py)        *)
(*   AirtableService                   (src/src/services/airtable.py)      *)
(*   ReportTemplate                    (src/src/templates/report_html.py)  *)
(*                                                                         *)
(* Python strings are sequences of one-character strings.  A dynamically   *)
(* typed Python value is a record [t, s, l, n]: t is the type tag, s the   *)
(* characters of a str, l the elements of a list of str, n a number in     *)
(* hundredths.                                                             *)
(***************************************************************************)
EXTENDS Integers, Sequences, FiniteSets, TLC

(* ----------------------------------------------------------------------- *)
(* Bounds of the model                                                     *)
(* ----------------------------------------------------------------------- *)

\* Number of webhook deliveries (pipeline runs) in one behaviour.
MaxRuns == 2

\* Number of external calls of one behaviour that fail for a reason of the
\* collaborator's own (the request raises, the host answers 403).
MaxFaults == 1

Runs == 1..MaxRuns

(* ----------------------------------------------------------------------- *)
(* Python values                                                           *)
(* ----------------------------------------------------------------------- *)

PyStr(chars) == [t |-> "str", s |-> chars, l |-> <<>>, n |-> 0]

PyList(elems) == [t |-> "list", s |-> <<>>, l |-> elems, n |-> 0]

PyNum(hundredths) == [t |-> "num", s |-> <<>>, l |-> <<>>, n |-> hundredths]

PyNone == [t |-> "none", s |-> <<>>, l |-> <<>>, n |-> 0]

\* A key that the dict does not hold.
Absent == [t |-> "absent", s |-> <<>>, l |-> <<>>, n |-> 0]

Digits == <<"0", "1", "2", "3", "4", "5", "6", "7", "8", "9">>

IsDigit(c) == \E i \in 1..10 : Digits[i] = c

DigitVal(c) == (CHOOSE i \in 1..10 : Digits[i] = c) - 1

\* str.startswith
StartsWith(chars, prefix) ==
    /\ Len(chars) >= Len(prefix)
    /\ SubSeq(chars, 1, Len(prefix)) = prefix

\* str.endswith
EndsWith(chars, suffix) ==
    /\ Len(chars) >= Len(suffix)
    /\ SubSeq(chars, Len(chars) - Len(suffix) + 1, Len(chars)) = suffix

\* str.replace(old, new) for a one-character old and new
ReplaceChar(chars, old, new) ==
    [i \in 1..Len(chars) |-> IF chars[i] = old THEN new ELSE chars[i]]

\* The decimal digits of a natural number, at least `width` of them (%02d, %04d).
RECURSIVE NatChars(_, _)
NatChars(k, width) ==
    IF k < 10 /\ width <= 1
    THEN <<Digits[k + 1]>>
    ELSE NatChars(k \div 10, width - 1) \o <<Digits[(k % 10) + 1]>>

(* ----------------------------------------------------------------------- *)
(* datetime                                                                *)
(* ----------------------------------------------------------------------- *)

IsLeap(y) == (y % 4 = 0 /\ y % 100 # 0) \/ y % 400 = 0

DaysInMonth(y, m) ==
    IF m = 2 THEN (IF IsLeap(y) THEN 29 ELSE 28)
    ELSE IF m \in {4, 6, 9, 11} THEN 30 ELSE 31

NoDate == [ok |-> FALSE, y |-> 0, m |-> 0, d |-> 0]

\* The value of a run of one or two digit characters, -1 when it is not one
\* (%m and %d accept "6" and "06"; %d also accepts " 6").
Field12(chars) ==
    IF Len(chars) = 1 /\ IsDigit(chars[1]) THEN DigitVal(chars[1])
    ELSE IF Len(chars) = 2 /\ IsDigit(chars[1]) /\ IsDigit(chars[2])
         THEN 10 * DigitVal(chars[1]) + DigitVal(chars[2])
    ELSE -1

\* datetime.strptime(chars, '%Y-%m-%d') on a str: ok = FALSE is ValueError.
strptime(chars) ==
    LET n == Len(chars)
        shapes == {ml \in {1, 2} : \E dl \in {1, 2} :
                      /\ n = 6 + ml + dl
                      /\ chars[5] = "-"
                      /\ chars[6 + ml] = "-"}
    IN  IF n < 8 \/ shapes = {} \/ \E i \in 1..4 : ~IsDigit(chars[i])
        THEN NoDate
        ELSE LET ml == CHOOSE x \in shapes : \A z \in shapes : x <= z
                 y  == 1000 * DigitVal(chars[1]) + 100 * DigitVal(chars[2])
                       + 10 * DigitVal(chars[3]) + DigitVal(chars[4])
                 m  == Field12(SubSeq(chars, 6, 5 + ml))
                 dc == SubSeq(chars, 7 + ml, n)
                 d  == IF Len(dc) = 2 /\ dc[1] = " " THEN Field12(<<dc[2]>>)
                       ELSE Field12(dc)
             IN  IF /\ y >= 1
                    /\ m \in 1..12
                    /\ (Len(SubSeq(chars, 6, 5 + ml)) = 2 => chars[6] \in {"0", "1"})
                    /\ d >= 1
                    /\ d <= DaysInMonth(y, m)
                 THEN [ok |-> TRUE, y |-> y, m |-> m, d |-> d]
                 ELSE NoDate

\* datetime comparison a > b
DateAfter(a, b) ==
    \/ a.y > b.y
    \/ a.y = b.y /\ a.m > b.m
    \/ a.y = b.y /\ a.m = b.m /\ a.d > b.d

(* ----------------------------------------------------------------------- *)
(* validate_webhook_payload                                                *)
(* ----------------------------------------------------------------------- *)

\* The event body: a dict with the five keys the pipeline reads (Absent marks
\* a key the dict does not hold), or a JSON value that is no dict.
\*   kind "dict": the fields below;  kind "null": None;  kind "text": a str
DictBody(rid, ds, de, acct, carrier) ==
    [kind |-> "dict", rid |-> rid, ds |-> ds, de |-> de,
     acct |-> acct, carrier |-> carrier]

NonDictBody(kind) ==
    [kind |-> kind, rid |-> Absent, ds |-> Absent, de |-> Absent,
     acct |-> Absent, carrier |-> Absent]

OptErr(cond, msg) == IF cond THEN <<msg>> ELSE <<>>

\* The date-format check of one field, parsed the value of strptime on it:
\* strptime raises ValueError
DateFormatError(v, parsed, msg) == OptErr(v # Absent /\ ~parsed.ok, msg)

ArrayErrors(v, notArray, empty) ==
    IF v = Absent THEN <<>>
    ELSE IF v.t # "list" THEN <<notArray>>
    ELSE IF Len(v.l) = 0 THEN <<empty>>
    ELSE <<>>

\* The error list of validate_webhook_payload, when it returns.
ValidationErrors(b) ==
    LET start_date == strptime(b.ds.s)
        end_date   == strptime(b.de.s)
    IN     OptErr(b.rid = Absent, "Missing required field: MySFDomainReportRecordID")
        \o OptErr(b.ds = Absent, "Missing required field: DateStart")
        \o OptErr(b.de = Absent, "Missing required field: DateEnd")
        \o OptErr(b.rid # Absent
                    /\ ~(b.rid.t = "str" /\ StartsWith(b.rid.s, <<"r", "e", "c">>)),
                  "Invalid MySFDomainReportRecordID format")
        \o DateFormatError(b.ds, start_date,
                           "Invalid date format for DateStart. Expected: YYYY-MM-DD")
        \o DateFormatError(b.de, end_date,
                           "Invalid date format for DateEnd. Expected: YYYY-MM-DD")
        \o OptErr(/\ b.ds # Absent /\ b.de # Absent
                  /\ start_date.ok /\ end_date.ok
                  /\ DateAfter(start_date, end_date),
                  "DateStart must be before or equal to DateEnd")
        \o ArrayErrors(b.acct, "AccountID must be an array", "AccountID array cannot be empty")
        \o ArrayErrors(b.carrier, "CarrierCompany must be an array",
                       "CarrierCompany array cannot be empty")

\* validate_webhook_payload raises TypeError: `field not in payload` on None, or
\* strptime on a date value that is not a str (only ValueError is caught).
ValidatorRaises(b) ==
    \/ b.kind = "null"
    \/ b.kind = "dict" /\ \E v \in {b.ds, b.de} : v # Absent /\ v.t # "str"

\* [raised, errors]: the outcome of validate_webhook_payload(body)
validate_webhook_payload(b) ==
    IF ValidatorRaises(b) THEN [raised |-> TRUE, errors |-> <<>>]
    ELSE [raised |-> FALSE, errors |-> ValidationErrors(b)]

(* ----------------------------------------------------------------------- *)
(* process_report: the pure steps                                          *)
(* ----------------------------------------------------------------------- *)

\* strftime('%B')
MonthNames ==
    <<<<"J", "a", "n", "u", "a", "r", "y">>,
       <<"F", "e", "b", "r", "u", "a", "r", "y">>,
       <<"M", "a", "r", "c", "h">>,
       <<"A", "p", "r", "i", "l">>,
       <<"M", "a", "y">>,
       <<"J", "u", "n", "e">>,
       <<"J", "u", "l", "y">>,
       <<"A", "u", "g", "u", "s", "t">>,
       <<"S", "e", "p", "t", "e", "m", "b", "e", "r">>,
       <<"O", "c", "t", "o", "b", "e", "r">>,
       <<"N", "o", "v", "e", "m", "b", "e", "r">>,
       <<"D", "e", "c", "e", "m", "b", "e", "r">>>>

\* strftime('%Y') (years of four digits)
YearChars(y) == NatChars(y, 4)

\* strftime('%m-%d-%Y')
MDY(dt) == NatChars(dt.m, 2) \o <<"-">> \o NatChars(dt.d, 2) \o <<"-">> \o YearChars(dt.y)

\* dt - timedelta(days=1)
MinusOneDay(dt) ==
    IF dt.d > 1 THEN [dt EXCEPT !.d = dt.d - 1]
    ELSE IF dt.m > 1 THEN [dt EXCEPT !.m = dt.m - 1, !.d = DaysInMonth(dt.y, dt.m - 1)]
    ELSE [dt EXCEPT !.y = dt.y - 1, !.m = 12, !.d = 31]

\* Faulty variant: no branch for December, replace(month=13) raises ValueError
next_month_of_no_december(start_dt) ==
    IF start_dt.m + 1 > 12 THEN NoDate
    ELSE [start_dt EXCEPT !.m = start_dt.m + 1, !.d = 1]

\* next_month of process_report: the first day of the month after start_dt
\* (ok = FALSE: datetime.replace raises ValueError)
next_month_of(start_dt) ==
    IF start_dt.m = 12 THEN [start_dt EXCEPT !.y = start_dt.y + 1, !.m = 1, !.d = 1]
    ELSE [start_dt EXCEPT !.m = start_dt.m + 1, !.d = 1]

\* report_month of process_report, from the two date strings of the event
report_month(date_start, date_end) ==
    LET start_dt == strptime(date_start)
        end_dt   == strptime(date_end)
    IN  IF ~start_dt.ok \/ ~end_dt.ok \/ ~next_month_of(start_dt).ok
        THEN date_start \o <<"-">> \o date_end
        ELSE LET first_of_month == [start_dt EXCEPT !.d = 1]
                 last_of_month  == MinusOneDay(next_month_of(start_dt))
             IN  IF start_dt = first_of_month /\ end_dt = last_of_month
                 THEN MonthNames[start_dt.m] \o <<" ">> \o YearChars(start_dt.y)
                 ELSE MDY(start_dt) \o <<"-">> \o MDY(end_dt)

\* The value of digit characters, most significant first
RECURSIVE DigitsVal(_)
DigitsVal(chars) ==
    IF Len(chars) = 0 THEN 0
    ELSE 10 * DigitsVal(SubSeq(chars, 1, Len(chars) - 1)) + DigitVal(chars[Len(chars)])

AllDigits(chars) == Len(chars) > 0 /\ \A i \in 1..Len(chars) : IsDigit(chars[i])

\* float(chars) for the plain decimal forms  [-]digits[.d[d]] : [ok, n] with n
\* in hundredths; every other text of the model is one float() rejects.
ParseFloat(chars) ==
    LET neg  == Len(chars) > 0 /\ chars[1] = "-"
        body == IF neg THEN SubSeq(chars, 2, Len(chars)) ELSE chars
        dots == {i \in 1..Len(body) : body[i] = "."}
        sign == IF neg THEN -1 ELSE 1
    IN  IF dots = {}
        THEN (IF AllDigits(body) THEN [ok |-> TRUE, n |-> sign * 100 * DigitsVal(body)]
                                 ELSE [ok |-> FALSE, n |-> 0])
        ELSE LET dot  == CHOOSE i \in dots : TRUE
                 ip   == SubSeq(body, 1, dot - 1)
                 fp   == SubSeq(body, dot + 1, Len(body))
             IN  IF Cardinality(dots) = 1 /\ AllDigits(ip) /\ AllDigits(fp) /\ Len(fp) <= 2
                 THEN [ok |-> TRUE,
                       n |-> sign * (100 * DigitsVal(ip)
                                     + (IF Len(fp) = 1 THEN 10 ELSE 1) * DigitsVal(fp))]
                 ELSE [ok |-> FALSE, n |-> 0]

\* math.ceil of a number in hundredths, as an int in hundredths
Ceil100(n) == 100 * (-((-n) \div 100))

\* float(val) succeeds
IsFloatable(val) == val.t = "num" \/ (val.t = "str" /\ ParseFloat(val.s).ok)

\* float(val), in hundredths
FloatOf(val) == IF val.t = "num" THEN val.n ELSE ParseFloat(val.s).n

\* Faulty variant: round to the nearest integer instead of up
round_up_nearest(val) ==
    IF IsFloatable(val) THEN PyNum(100 * ((FloatOf(val) + 50) \div 100)) ELSE val

\* round_up of process_report: int(math.ceil(float(val))), or val itself when
\* float(val) raises
round_up(val) == IF IsFloatable(val) THEN PyNum(Ceil100(FloatOf(val))) ELSE val

\* fields.get(key, 0)
GetOrZero(v) == IF v = Absent THEN PyNum(0) ELSE v

\* a + b raises TypeError
AddRaises(a, b) == ~(a.t = b.t /\ a.t \in {"num", "str", "list"})

\* a + b
PyAdd(a, b) ==
    IF a.t = "num" THEN PyNum(a.n + b.n)
    ELSE IF a.t = "str" THEN PyStr(a.s \o b.s)
    ELSE PyList(a.l \o b.l)

\* round(x / y, 2) of two numbers in hundredths, y # 0, in hundredths
\* (to the nearest hundredth)
Round2Div(x, y) ==
    LET num == IF y < 0 THEN -x ELSE x
        den == IF y < 0 THEN -y ELSE y
    IN  (200 * num + den) \div (2 * den)

\* Faulty variant: no leads counted as one lead
cost_per_lead_raw_per_one(cost, total_leads) ==
    IF ~IsFloatable(total_leads) \/ ~IsFloatable(cost) THEN PyNum(0)
    ELSE IF FloatOf(total_leads) = 0 THEN PyNum(FloatOf(cost))
    ELSE PyNum(Round2Div(FloatOf(cost), FloatOf(total_leads)))

\* cost_per_lead of process_report, before the final round_up
cost_per_lead_raw(cost, total_leads) ==
    IF ~IsFloatable(total_leads) \/ ~IsFloatable(cost) THEN PyNum(0)
    ELSE IF FloatOf(total_leads) = 0 THEN PyNum(0)
    ELSE PyNum(Round2Div(FloatOf(cost), FloatOf(total_leads)))

\* The Airtable record of the model: the five rollup fields, the client name,
\* the report-URL field and one field the pipeline never writes.
Fields(cost, phone, sms, quotes, conv, client) ==
    [cost |-> cost, phone_clicks |-> phone, sms_clicks |-> sms,
     quote_starts |-> quotes, conversions |-> conv, client_name |-> client]

\* total_leads = quote_starts + phone_clicks + sms_clicks + conversions raises
NormalizeRaises(fields) ==
    LET q == round_up(GetOrZero(fields.quote_starts))
        p == round_up(GetOrZero(fields.phone_clicks))
        s == round_up(GetOrZero(fields.sms_clicks))
        c == round_up(GetOrZero(fields.conversions))
    IN  \/ AddRaises(q, p)
        \/ AddRaises(PyAdd(q, p), s)
        \/ AddRaises(PyAdd(PyAdd(q, p), s), c)

\* template_data of process_report
template_data_of(fields, date_start, date_end) ==
    LET cost == round_up(GetOrZero(fields.cost))
        q == round_up(GetOrZero(fields.quote_starts))
        p == round_up(GetOrZero(fields.phone_clicks))
        s == round_up(GetOrZero(fields.sms_clicks))
        c == round_up(GetOrZero(fields.conversions))
        total == PyAdd(PyAdd(PyAdd(q, p), s), c)
    IN  [report_month  |-> report_month(date_start, date_end),
         total_leads   |-> total,
         conversions   |-> c,
         cost          |-> cost,
         cost_per_lead |-> round_up(cost_per_lead_raw(cost, total)),
         quote_starts  |-> q,
         phone_clicks  |-> p,
         sms_clicks    |-> s]

\* str.strip() removes these
Whitespace == {" ", "\t"}

RECURSIVE LStrip(_)
LStrip(chars) ==
    IF Len(chars) > 0 /\ chars[1] \in Whitespace THEN LStrip(Tail(chars)) ELSE chars

RECURSIVE RStrip(_)
RStrip(chars) ==
    IF Len(chars) > 0 /\ chars[Len(chars)] \in Whitespace
    THEN RStrip(SubSeq(chars, 1, Len(chars) - 1))
    ELSE chars

Strip(chars) == RStrip(LStrip(chars))

\* chars.split(' ')[-1]
LastSplit(chars) ==
    LET spaces == {i \in 1..Len(chars) : chars[i] = " "}
    IN  IF spaces = {} THEN chars
        ELSE SubSeq(chars, (CHOOSE i \in spaces : \A j \in spaces : j <= i) + 1, Len(chars))

\* ' '.join(elems)
RECURSIVE JoinSpace(_)
JoinSpace(elems) ==
    IF Len(elems) = 0 THEN <<>>
    ELSE IF Len(elems) = 1 THEN elems[1]
    ELSE elems[1] \o <<" ">> \o JoinSpace(Tail(elems))

\* [x for x in elems if x]
RECURSIVE NonEmpty(_)
NonEmpty(elems) ==
    IF Len(elems) = 0 THEN <<>>
    ELSE (IF Len(elems[1]) > 0 THEN <<elems[1]>> ELSE <<>>) \o NonEmpty(Tail(elems))

DefaultClient == <<"C", "l", "i", "e", "n", "t">>

\* client_name of process_report after the list and str() handling
client_name_of(v) ==
    IF v = Absent THEN DefaultClient
    ELSE IF v.t = "list"
         THEN (IF Len(v.l) = 0 THEN DefaultClient ELSE JoinSpace(NonEmpty(v.l)))
    ELSE IF v.t = "none" THEN <<"N", "o", "n", "e">>
    ELSE IF v.t = "num" THEN NatChars(v.n \div 100, 1)
    ELSE v.s

last_name_of(v) ==
    LET stripped == Strip(client_name_of(v))
    IN  IF Len(stripped) > 0 THEN LastSplit(stripped) ELSE DefaultClient

DotHtml == <<".", "h", "t", "m", "l">>

\* Faulty variant: the whole client name goes into the filename
filename_of_full_name(client, month) ==
    Strip(client_name_of(client)) \o <<"_">> \o ReplaceChar(month, " ", "-") \o DotHtml

\* filename of process_report: f"{last_name}_{safe_report_month}.html"
filename_of(client, month) ==
    last_name_of(client) \o <<"_">> \o ReplaceChar(month, " ", "-") \o DotHtml

(* ----------------------------------------------------------------------- *)
(* GitHubService                                                           *)
(* ----------------------------------------------------------------------- *)

_sanitize_filename(filename) ==
    LET safe == ReplaceChar(ReplaceChar(filename, " ", "_"), "/", "_")
    IN  IF EndsWith(safe, DotHtml) THEN safe ELSE safe \o DotHtml

\* config.GITHUB_REPORTS_PATH (the directory name is one token of the path)
GITHUB_REPORTS_PATH == <<"reports">>

\* file_path of upload_report
file_path_of(path, filename) == path \o <<"/">> \o _sanitize_filename(filename)

\* The origin of the public URL (one token)
PagesBase == <<"https://app.agentinsider.co/">>

\* pages_url of upload_report
pages_url_of(file_path) == PagesBase \o file_path

\* The revision token (blob SHA) the host gives a file: a hash of its content.
Sha(content) == <<"blob", content>>

\* No token: _get_file_sha returned None
NoSha == <<>>

\* Faulty variant: the sha is never put into the request
upload_data_without_sha(content, existing_sha) ==
    [content |-> content, sha |-> NoSha, message |-> "Add report"]

\* `data` of upload_report, the body of the PUT: the sha key is there only
\* when existing_sha is truthy, and the message says create or update.
upload_data(content, existing_sha) ==
    [content |-> content,
     sha     |-> existing_sha,
     message |-> IF existing_sha # NoSha THEN "Update report" ELSE "Add report"]

\* The host's status for a PUT of `data` at `path` when it applies its rules
\* (the contents API: a create needs no sha, a replace needs the current one).
HostPutStatus(h, path, data) ==
    IF path \notin DOMAIN h
    THEN (IF data.sha = NoSha THEN 201 ELSE 422)
    ELSE IF data.sha = NoSha THEN 422
    ELSE IF data.sha = h[path].sha THEN 200
    ELSE 409

\* The body of the host's answer to a PUT (response.text), one token
HostBody(status) ==
    IF status = 422 THEN <<"Invalid request. \"sha\" wasn't supplied.">>
    ELSE IF status = 409 THEN <<"reports file does not match the sha given">>
    ELSE IF status = 403 THEN <<"Resource not accessible by integration">>
    ELSE <<"content and commit of the file written">>

\* The host's files after it accepted the PUT
HostAfterPut(h, path, data) ==
    [q \in DOMAIN h \cup {path} |->
        IF q = path THEN [content |-> data.content, sha |-> Sha(data.content)]
        ELSE h[q]]

\* Faulty variant: a conflict answer is taken for a success
PutAccepted_with_conflict(status) == status \in {200, 201, 409, 422}

\* `response.status_code not in [201, 200]` is false
PutAccepted(status) == status \in {200, 201}

\* Statuses with which the host refuses a request whatever its content
HostFaults == {403}

(* ----------------------------------------------------------------------- *)
(* Exceptions and responses                                                *)
(* ----------------------------------------------------------------------- *)

Exc(type, msg, arg, status) == [type |-> type, msg |-> msg, arg |-> arg, status |-> status]

NoTemplateData ==
    [report_month |-> <<>>, total_leads |-> Absent, conversions |-> Absent,
     cost |-> Absent, cost_per_lead |-> Absent, quote_starts |-> Absent,
     phone_clicks |-> Absent, sms_clicks |-> Absent]

NoData == [report_url |-> <<>>, record_id |-> <<>>, metrics |-> NoTemplateData]

NoResponse ==
    [status |-> 0, success |-> FALSE, errors |-> <<>>, error |-> "", arg |-> <<>>,
     code |-> 0, data |-> NoData]

\* jsonify({'success': False, 'error': 'Invalid payload format'}), 400
InvalidFormatResponse ==
    [NoResponse EXCEPT !.status = 400, !.error = "Invalid payload format"]

\* jsonify({'success': False, 'errors': validation_errors}), 400
ValidationResponse(errors) == [NoResponse EXCEPT !.status = 400, !.errors = errors]

\* jsonify({'success': False, 'error': str(e)}), 500: str(e) is the message
\* with what it was formatted from, never the exception's type
ErrorResponse(e) ==
    [NoResponse EXCEPT !.status = 500, !.error = e.msg, !.arg = e.arg, !.code = e.status]

\* jsonify({'success': True, 'data': result}), 200
SuccessResponse(result) == [NoResponse EXCEPT !.status = 200, !.success = TRUE, !.data = result]

\* Faulty variant: the handler catches ValueError only
CaughtByHandler_ValueError(e) == e.type = "ValueError"

\* `except Exception as e` of handle_webhook catches e
CaughtByHandler(e) == TRUE

\* What the transport layer gets when the handler lets an exception through
Escaped == [NoResponse EXCEPT !.status = -1, !.error = "unhandled exception"]

\* Faulty variant: the handler answers success for an exception it caught
OnException_success(e) == SuccessResponse(NoData)

\* The handler's answer to an exception raised inside its try block
OnException(e) == IF CaughtByHandler(e) THEN ErrorResponse(e) ELSE Escaped

(* ----------------------------------------------------------------------- *)
(* The inputs of the model                                                 *)
(* ----------------------------------------------------------------------- *)

Rec1 == <<"r", "e", "c", "1">>

Rec2 == <<"r", "e", "c", "2">>

RecIds == {Rec1, Rec2}

June1 == <<"2", "0", "2", "5", "-", "0", "6", "-", "0", "1">>

June30 == <<"2", "0", "2", "5", "-", "0", "6", "-", "3", "0">>

JaneDoe == <<"J", "a", "n", "e", " ", "D", "o", "e">>

JohnDoe == <<"J", "o", "h", "n", " ", "D", "o", "e">>

\* The rollup fields a record of the store may hold: the record of the
\* repository's tests, and one whose metrics are not numbers.
SampleFields ==
    { Fields(PyNum(10000), PyNum(1000), PyNum(500), PyNum(200), PyNum(100),
             PyList(<<JaneDoe>>)),
      Fields(PyStr(<<"n", "/", "a">>), PyNum(1000), PyNone, PyNum(200), PyNum(100),
             PyStr(JaneDoe)) }

NoFields == Fields(Absent, Absent, Absent, Absent, Absent, Absent)

\* A record of the store: its rollup fields, its report-URL field
\* ("Monthly Performance Report URL") and a field the pipeline never writes.
StoredRecord(fields) ==
    [exists |-> TRUE, fields |-> fields, url |-> <<>>, status |-> "Ready"]

NoRecord == [exists |-> FALSE, fields |-> NoFields, url |-> <<>>, status |-> ""]

\* The stores a behaviour may start from: two records of two clients of one
\* surname, or a record with malformed metrics and no second record
InitialStores ==
    { [id \in RecIds |->
         IF id = Rec1 THEN StoredRecord(f)
         ELSE IF NormalizeRaises(f) THEN NoRecord
         ELSE StoredRecord(Fields(PyNum(5000), PyNum(0), PyNum(0), PyNum(0), PyNum(0),
                                  PyStr(JohnDoe)))] : f \in SampleFields }

Acct == PyList(<<<<"1", "2", "8", "-", "9", "0", "3", "-", "1", "3", "9", "4">>>>)

Carrier == PyList(<<<<"T", "e", "s", "t", "C", "a", "r", "r", "i", "e", "r">>>>)

ValidBodies ==
    { DictBody(PyStr(Rec1), PyStr(June1), PyStr(June30), Acct, Carrier),
      DictBody(PyStr(Rec2), PyStr(June1), PyStr(June30), Absent, Absent) }

InvalidBodies ==
    {       DictBody(PyStr(<<"a", "b", "c">>), PyStr(<<"0", "6", "/", "0", "1", "/", "2", "0", "2", "5">>), PyStr(June30), PyList(<<>>), Absent),
      NonDictBody("null") }

\* request.json: what the JSON of the request is, and the value under 'body'
\* of the envelope when the envelope is a dict
Payload(json, body) == [json |-> json, body |-> body]

Payloads ==
    { Payload("list_of_dict", b) : b \in ValidBodies }
    \cup { Payload("dict", b) : b \in InvalidBodies }
    \cup { Payload(j, NonDictBody("text")) : j \in {"malformed", "empty_list"} }

\* The document a patched ReportTemplate.generate_report returns: a function
\* of the metrics it is given and of nothing else
Rendered(template_data) == <<"html", template_data>>

NoHtml == <<"html", NoTemplateData>>

(* ----------------------------------------------------------------------- *)
(* State                                                                   *)
(* ----------------------------------------------------------------------- *)

VARIABLES
    wiring,     \* which ReportTemplate and which record service the process runs with
    store,      \* the record store: record id -> record
    host,       \* the file host: path -> [content, sha]
    pc,         \* per run: the step the run is at
    request,    \* per run: the payload delivered
    locals,     \* per run: the locals of handle_webhook, process_report, upload_report
    faults,     \* the number of external calls that have failed on the collaborator's side
    calls,      \* per run: the external steps issued so far, in order
    response,   \* per run: what handle_webhook returned
    fcall       \* the function called on its own (SpecFn): [fn, arg, ret]

vars == <<wiring, store, host, pc, request, locals, faults, calls, response, fcall>>

\* The state of the pipeline
pipeline == <<wiring, store, host, pc, request, locals, faults, calls, response>>

\* No function has been called on its own
NoCall == [fn |-> "", arg |-> <<>>, ret |-> <<>>]

\* An external call either goes through (TRUE) or, while the budget lasts,
\* fails on the collaborator's side (FALSE)
Outcomes == {TRUE} \cup (IF faults < MaxFaults THEN {FALSE} ELSE {})

Count(ok) == IF ok THEN faults ELSE faults + 1

\* wiring.template: "ReportTemplate" is the class of report_html.py, "patched"
\* a stand-in that returns a document (as the tests under handlers/ patch it).
\* wiring.airtable: "AirtableService" is the class of airtable.py, "injected"
\* a record service passed to process_report that has update_report_url.
Wirings ==
    [template : {"ReportTemplate", "patched"}, airtable : {"AirtableService", "injected"}]

NoLocals ==
    [report_id |-> <<>>, date_start |-> <<>>, date_end |-> <<>>,
     fields |-> NoFields, template_data |-> NoTemplateData, html_content |-> NoHtml,
     filename |-> <<>>, file_path |-> <<>>, existing_sha |-> NoSha,
     data |-> upload_data(NoHtml, NoSha), put_status |-> 0,
     seen_writes |-> {}, at_put_sha |-> NoSha, report_url |-> <<>>,
     after_done |-> {}, put_body |-> <<>>]

\* One external step in the log of a run
Call(op, ok, path, sha, rid) == [op |-> op, ok |-> ok, path |-> path, sha |-> sha, rid |-> rid]

Init ==
    /\ wiring \in Wirings
    /\ store \in InitialStores
    /\ host = [q \in {} |-> [content |-> NoHtml, sha |-> NoSha]]
    /\ pc = [r \in Runs |-> "idle"]
    /\ request = [r \in Runs |-> Payload("none", NonDictBody("text"))]
    /\ locals = [r \in Runs |-> NoLocals]
    /\ faults = 0
    /\ calls = [r \in Runs |-> <<>>]
    /\ response = [r \in Runs |-> NoResponse]
    /\ fcall = NoCall

\* The run ends: handle_webhook returns resp
Return(r, resp) ==
    /\ pc' = [pc EXCEPT ![r] = "done"]
    /\ response' = [response EXCEPT ![r] = resp]

(* ----------------------------------------------------------------------- *)
(* handle_webhook, up to the call of process_report                        *)
(* ----------------------------------------------------------------------- *)

\* Faulty variant: only a missing required field stops the delivery
ValidationBlocks_missing_only(errors) ==
    \E i \in 1..Len(errors) :
        errors[i] \in {"Missing required field: MySFDomainReportRecordID",
                       "Missing required field: DateStart",
                       "Missing required field: DateEnd"}

\* `if validation_errors:` of handle_webhook
ValidationBlocks(errors) == errors # <<>>

\* isinstance(payload, dict) after the list unwrapping
PayloadIsDict(p) == p.json \in {"dict", "list_of_dict"}

\* The runs handle_webhook has answered with success
Succeeded == {q \in Runs : pc[q] = "done" /\ response[q].success}

Receive(r, p) ==
    /\ pc[r] = "idle"
    /\ \A q \in Runs : q < r => pc[q] # "idle"
    /\ request' = [request EXCEPT ![r] = p]
    /\ UNCHANGED <<wiring, store, host, faults, calls, fcall>>
    /\ IF p.json = "malformed"
       THEN /\ Return(r, OnException(Exc("BadRequest", "Failed to decode JSON object", <<>>, 0)))
            /\ UNCHANGED locals
       ELSE IF ~PayloadIsDict(p)
       THEN /\ Return(r, InvalidFormatResponse)
            /\ UNCHANGED locals
       ELSE LET v == validate_webhook_payload(p.body)
            IN  IF v.raised
                THEN /\ Return(r, OnException(Exc("TypeError", "validator", <<>>, 0)))
                     /\ UNCHANGED locals
                ELSE IF ValidationBlocks(v.errors)
                THEN /\ Return(r, ValidationResponse(v.errors))
                     /\ UNCHANGED locals
                ELSE /\ pc' = [pc EXCEPT ![r] = "fetch"]
                     /\ locals' = [locals EXCEPT ![r].report_id = p.body.rid.s,
                                                 ![r].date_start = p.body.ds.s,
                                                 ![r].date_end = p.body.de.s,
                                                 ![r].after_done = Succeeded]
                     /\ UNCHANGED response

(* ----------------------------------------------------------------------- *)
(* process_report                                                          *)
(* ----------------------------------------------------------------------- *)

\* Faulty variant: the exception is swallowed and the step is tried again
Raise_retry(r, e) ==
    /\ pc' = pc
    /\ response' = response

\* An exception raised inside process_report: its except block logs and
\* re-raises, handle_webhook answers; nothing tries the step again.
Raise(r, e) == Return(r, OnException(e))

\* Faulty variant: the except branch returns an empty record instead of None
get_record_by_id_stub(st, record_id, api_ok) ==
    IF api_ok /\ record_id \in DOMAIN st /\ st[record_id].exists
    THEN st[record_id]
    ELSE StoredRecord(NoFields)

\* AirtableService.get_record_by_id: the record, or None (NoRecord) when
\* table.get raises (no such record, or the request failed)
get_record_by_id(st, record_id, api_ok) ==
    IF api_ok /\ record_id \in DOMAIN st /\ st[record_id].exists
    THEN st[record_id]
    ELSE NoRecord

\* Faulty variant: the check of the fetched record is gone
RecordMissing_never(record) == FALSE

\* `if not record:` of process_report
RecordMissing(record) == ~record.exists

\* Step 1 and 2: fetch the record, extract and normalize the metrics
Fetch(r) ==
    /\ pc[r] = "fetch"
    /\ UNCHANGED <<wiring, store, host, request, fcall>>
    /\ \E api_ok \in Outcomes :
         LET record == get_record_by_id(store, locals[r].report_id, api_ok)
         IN  /\ faults' = Count(api_ok)
             /\ calls' = [calls EXCEPT ![r] =
                   Append(@, Call("get_record_by_id", record.exists, <<>>, NoSha,
                                  locals[r].report_id))]
             /\ IF RecordMissing(record)
                THEN /\ Raise(r, Exc("ValueError", "Record not found",
                                                  locals[r].report_id, 0))
                     /\ UNCHANGED locals
                ELSE IF NormalizeRaises(record.fields)
                THEN /\ Raise(r, Exc("TypeError", "unsupported operand type(s) for +",
                                                  <<>>, 0))
                     /\ locals' = [locals EXCEPT ![r].fields = record.fields]
                ELSE /\ pc' = [pc EXCEPT ![r] = "render"]
                     /\ locals' = [locals EXCEPT
                           ![r].fields = record.fields,
                           ![r].template_data =
                               template_data_of(record.fields, locals[r].date_start,
                                                locals[r].date_end)]
                     /\ UNCHANGED response

\* ReportTemplate.generate_report(template_data) raises TypeError: the method
\* of report_html.py has five required parameters and is called with one.
GenerateReportRaises(w) == w.template = "ReportTemplate"

\* Step 3, and step 4 up to the revision read: render, derive the filename,
\* enter upload_report (sanitize, compose file_path)
Render(r) ==
    /\ pc[r] = "render"
    /\ UNCHANGED <<wiring, store, host, request, faults, fcall>>
    /\ calls' = [calls EXCEPT ![r] =
          Append(@, Call("generate_report", ~GenerateReportRaises(wiring), <<>>, NoSha, <<>>))]
    /\ IF GenerateReportRaises(wiring)
       THEN /\ Raise(r, Exc("TypeError",
                        "generate_report() missing 4 required positional arguments", <<>>, 0))
            /\ UNCHANGED locals
       ELSE /\ LET filename == filename_of(locals[r].fields.client_name,
                                             locals[r].template_data.report_month)
               IN  locals' = [locals EXCEPT
                        ![r].html_content = Rendered(locals[r].template_data),
                        ![r].filename = filename,
                        ![r].file_path = file_path_of(GITHUB_REPORTS_PATH, filename)]
            /\ pc' = [pc EXCEPT ![r] = "get_sha"]
            /\ UNCHANGED response

\* Faulty variant: the method returns whether the file exists, not its sha
_get_file_sha_exists(h, file_path, answered) ==
    IF answered /\ file_path \in DOMAIN h THEN <<"True">> ELSE NoSha

\* Faulty variant: the sha is read under a key the answer does not have
_get_file_sha_wrong_key(h, file_path, answered) == NoSha

\* Faulty variant: the token of an earlier read is used when the read fails
_get_file_sha_stale(h, file_path, answered) ==
    IF file_path \in DOMAIN h THEN h[file_path].sha ELSE NoSha

\* GitHubService._get_file_sha: the sha of a 200 answer, None for every other
\* status and for a request that raises
_get_file_sha(h, file_path, answered) ==
    IF answered /\ file_path \in DOMAIN h THEN h[file_path].sha ELSE NoSha

\* The runs whose write the host has accepted
Published == {q \in Runs : PutAccepted(locals[q].put_status)}

\* The runs that have sent their write, whatever the answer
Written == {q \in Runs : Len(calls[q]) >= 4}

\* The revision token of the file the host holds at a path, NoSha when none
HostSha(h, path) == IF path \in DOMAIN h THEN h[path].sha ELSE NoSha

\* The host's files after it answered a PUT with `status`: the file is written
\* when the host applied its rules and they accept the request
HostAfterAnswer(h, path, data, status) ==
    IF status = HostPutStatus(h, path, data) /\ status \in {200, 201}
    THEN HostAfterPut(h, path, data)
    ELSE h

\* upload_report: `existing_sha = self._get_file_sha(file_path)`
GetSha(r) ==
    /\ pc[r] = "get_sha"
    /\ UNCHANGED <<wiring, store, host, request, response, fcall>>
    /\ \E answered \in Outcomes :
         LET sha == _get_file_sha(host, locals[r].file_path, answered)
         IN  /\ faults' = Count(answered)
             /\ calls' = [calls EXCEPT ![r] =
                   Append(@, Call("get_file_sha", answered, locals[r].file_path, sha, <<>>))]
             /\ locals' = [locals EXCEPT ![r].existing_sha = sha,
                                         ![r].seen_writes = Written]
    /\ pc' = [pc EXCEPT ![r] = "put"]

\* upload_report: build `data`, PUT it, check the status, return pages_url
Put(r) ==
    /\ pc[r] = "put"
    /\ UNCHANGED <<wiring, store, request, fcall>>
    /\ LET data == upload_data(locals[r].html_content, locals[r].existing_sha)
           path == locals[r].file_path
       IN  \/ \E status \in {HostPutStatus(host, path, data)}
                              \cup (IF faults < MaxFaults THEN HostFaults ELSE {}) :
                /\ faults' = Count(status = HostPutStatus(host, path, data))
                /\ calls' = [calls EXCEPT ![r] =
                      Append(@, Call("put", PutAccepted(status), path, data.sha, <<>>))]
                /\ host' = HostAfterAnswer(host, path, data, status)
                /\ IF PutAccepted(status)
                   THEN /\ locals' = [locals EXCEPT ![r].data = data,
                                                    ![r].put_status = status,
                                                    ![r].put_body = HostBody(status),
                                                    ![r].at_put_sha = HostSha(host, path),
                                                    ![r].report_url = pages_url_of(path)]
                        /\ pc' = [pc EXCEPT ![r] = "update"]
                        /\ UNCHANGED response
                   ELSE /\ locals' = [locals EXCEPT ![r].data = data,
                                                    ![r].put_status = status,
                                                    ![r].put_body = HostBody(status),
                                                    ![r].at_put_sha = HostSha(host, path)]
                        /\ Raise(r, Exc("Exception", "Failed to upload to GitHub",
                                                     <<>>, status))
           \/ /\ faults < MaxFaults
              /\ faults' = faults + 1
              /\ calls' = [calls EXCEPT ![r] =
                    Append(@, Call("put", FALSE, path, data.sha, <<>>))]
              /\ locals' = [locals EXCEPT ![r].data = data, ![r].put_status = -1,
                                          ![r].at_put_sha = HostSha(host, path)]
              /\ host' = host
              /\ Raise(r, Exc("ConnectionError", "Connection aborted", <<>>, 0))

\* The record service has update_report_url: AirtableService (airtable.py)
\* defines get_linked_keyword_performance, create_report_record and
\* get_record_by_id only, so the call raises AttributeError.
HasUpdateReportUrl(w) == w.airtable # "AirtableService"

\* update_report_url of an injected record service: the single-field update
\* {"Monthly Performance Report URL": report_url} of the record record_id
update_report_url(st, record_id, report_url) ==
    [id \in DOMAIN st |-> IF id = record_id THEN [st[id] EXCEPT !.url = report_url] ELSE st[id]]

\* Faulty variant: the result reports the repository path instead of the public URL
process_report_result_path(loc) ==
    [report_url |-> loc.file_path, record_id |-> loc.report_id,
     metrics |-> loc.template_data]

\* The dict process_report returns (processing_time, a timestamp, left out)
process_report_result(loc) ==
    [report_url |-> loc.report_url, record_id |-> loc.report_id,
     metrics |-> loc.template_data]

\* Faulty variant: the except block deletes the artifact it published
HostAfterBackWriteFailure_rollback(h, loc) ==
    [q \in DOMAIN h \ {loc.file_path} |-> h[q]]

\* The file host after the back-write raised: the except block of
\* process_report logs and re-raises, it sends nothing to the host.
HostAfterBackWriteFailure(h, loc) == h

\* Step 5: write the URL back, and return the result
Update(r) ==
    /\ pc[r] = "update"
    /\ UNCHANGED <<wiring, request, locals, fcall>>
    /\ IF ~HasUpdateReportUrl(wiring)
       THEN /\ calls' = [calls EXCEPT ![r] =
                  Append(@, Call("update_report_url", FALSE, <<>>, NoSha, locals[r].report_id))]
            /\ faults' = faults
            /\ store' = store
            /\ host' = HostAfterBackWriteFailure(host, locals[r])
            /\ Raise(r, Exc("AttributeError",
                  "'AirtableService' object has no attribute 'update_report_url'", <<>>, 0))
       ELSE \/ /\ calls' = [calls EXCEPT ![r] =
                     Append(@, Call("update_report_url", TRUE, <<>>, NoSha, locals[r].report_id))]
               /\ store' = update_report_url(store, locals[r].report_id, locals[r].report_url)
               /\ faults' = faults
               /\ host' = host
               /\ Return(r, SuccessResponse(process_report_result(locals[r])))
            \/ /\ faults < MaxFaults
               /\ faults' = faults + 1
               /\ calls' = [calls EXCEPT ![r] =
                     Append(@, Call("update_report_url", FALSE, <<>>, NoSha, locals[r].report_id))]
               /\ store' = store
               /\ host' = HostAfterBackWriteFailure(host, locals[r])
               /\ Raise(r, Exc("ConnectionError", "Connection aborted", <<>>, 0))

Next ==
    \/ \E r \in Runs, p \in Payloads : Receive(r, p)
    \/ \E r \in Runs : Fetch(r)
    \/ \E r \in Runs : Render(r)
    \/ \E r \in Runs : GetSha(r)
    \/ \E r \in Runs : Put(r)
    \/ \E r \in Runs : Update(r)

Spec == Init /\ [][Next]_vars

(* ----------------------------------------------------------------------- *)
(* The functions of the pipeline, called on their own                      *)
(* ----------------------------------------------------------------------- *)

\* A surname of `len` characters
LongName(len) == [i \in 1..len |-> "x"]

\* Values of the 'Client Name' field of a record
FnClients ==
    { PyList(<<JaneDoe>>),
      Absent,
      PyStr(<<"A", "l", " ", "O", ":", "B", "r", "i", "e", "n">>),
      PyStr(<<"A", "/", "B", "\\", "C">>),
      PyStr(<<"W", "h", "o", "?", "*">>),
      PyStr(<<"<", "b", ">", "|", "\"">>),
      PyStr(<<"A", "\t", "B">>),
      PyStr(LongName(88)),
      PyStr(LongName(96)) }

\* Periods of an event: a full month and a part of one
FnPeriods ==
    { <<June1, June30>>,
      <<June1, <<"2", "0", "2", "5", "-", "0", "6", "-", "1", "5">>>> }

\* Filenames given to upload_report: those process_report builds, and two a
\* direct caller may pass
FnFilenames ==
    { filename_of(c, report_month(per[1], per[2])) : c \in FnClients, per \in FnPeriods }
    \cup { <<"r", "e", "p", "o", "r", "t">>,
           <<"m", "y", " ", "r", "e", "p", "o", "r", "t", ".", "h", "t", "m", "l">> }

InitFn ==
    /\ wiring = [template |-> "ReportTemplate", airtable |-> "AirtableService"]
    /\ store = [id \in RecIds |-> NoRecord]
    /\ host = [q \in {} |-> [content |-> NoHtml, sha |-> NoSha]]
    /\ pc = [r \in Runs |-> "idle"]
    /\ request = [r \in Runs |-> Payload("none", NonDictBody("text"))]
    /\ locals = [r \in Runs |-> NoLocals]
    /\ faults = 0
    /\ calls = [r \in Runs |-> <<>>]
    /\ response = [r \in Runs |-> NoResponse]
    /\ fcall = NoCall

\* upload_report up to file_path: the path a filename is written to
CallFilePath ==
    /\ fcall = NoCall
    /\ \E filename \in FnFilenames :
          fcall' = [fn |-> "file_path", arg |-> filename,
                    ret |-> file_path_of(GITHUB_REPORTS_PATH, filename)]
    /\ UNCHANGED pipeline

\* Values of a date field of the body: dates, texts that are no date, and
\* values that are no str
FnDates ==
    { Absent,
      PyStr(June1),
      PyStr(June30),
      PyStr(<<"2", "0", "2", "5", "-", "6", "-", "1">>),
      PyStr(<<"0", "6", "/", "0", "1", "/", "2", "0", "2", "5">>),
      PyStr(<<"2", "0", "2", "5", "-", "0", "2", "-", "3", "0">>),
      PyNum(202506),
      PyNone }

\* Event bodies: every combination of the field values below, and JSON null
FnBodies ==
    { DictBody(rid, ds, de, acct, carrier) :
        rid \in {Absent, PyStr(Rec1), PyStr(<<"a", "b", "c">>), PyNum(100)},
        ds \in FnDates,
        de \in FnDates \ {PyNum(202506)},
        acct \in {Absent, Acct, PyList(<<>>), PyStr(<<"1", "2", "8">>)},
        carrier \in {Absent, Carrier, PyList(<<>>)} }
    \cup {NonDictBody("null")}

\* validate_webhook_payload(body)
CallValidate ==
    /\ fcall = NoCall
    /\ \E b \in FnBodies :
          fcall' = [fn |-> "validate", arg |-> b, ret |-> validate_webhook_payload(b)]
    /\ UNCHANGED pipeline

\* '%Y-%m-%d' of a date [y, m, d]
DateChars(dt) == YearChars(dt.y) \o <<"-">> \o NatChars(dt.m, 2) \o <<"-">> \o NatChars(dt.d, 2)

\* Calendar dates of an event: the ends and the middle of months of 28, 29,
\* 30 and 31 days, in leap years and others
FnCalendar ==
    { [ok |-> TRUE, y |-> y, m |-> m, d |-> d] :
        y \in {2000, 2024, 2025, 2100}, m \in {2, 6, 12}, d \in {1, 15, 28, 29, 30, 31} }

FnDatePairs ==
    { p \in FnCalendar \X FnCalendar :
        /\ p[1].d <= DaysInMonth(p[1].y, p[1].m)
        /\ p[2].d <= DaysInMonth(p[2].y, p[2].m)
        /\ ~DateAfter(p[1], p[2]) }

\* The report_month process_report computes for a period
CallReportMonth ==
    /\ fcall = NoCall
    /\ \E p \in FnDatePairs :
          fcall' = [fn |-> "report_month", arg |-> p,
                    ret |-> report_month(DateChars(p[1]), DateChars(p[2]))]
    /\ UNCHANGED pipeline

\* Records of the repository's tests (handlers/test_webhook.py lines 51-57,
\* templates/test_generate_reports.py lines 26-32), and records with many
\* leads for a small cost
FnTestRecords ==
    { Fields(PyNum(20000), PyNum(2000), PyNum(1000), PyNum(400), PyNum(200), Absent),
      Fields(PyNum(12345), PyNum(1200), PyNum(700), PyNum(300), PyNum(400), Absent),
      Fields(PyNum(100), PyNum(30000), PyNum(0), PyNum(0), PyNum(0), Absent),
      Fields(PyNum(30100), PyNum(30000), PyNum(0), PyNum(0), PyNum(0), Absent),
      Fields(PyNum(500), PyNum(700), PyNum(0), PyNum(0), PyNum(0), Absent),
      Fields(PyNum(5000), PyNum(-100), PyNum(100), PyNum(0), PyNum(0), Absent) }

\* Raw values of the rollup fields of a record: numbers (whole, fractional,
\* negative), numeric text, and values that are no number
FnFields ==
    { Fields(cost, phone, sms, quotes, conv, Absent) :
        cost \in {PyNum(10000), PyNum(12345), PyNum(1), PyNum(-150),
                  PyStr(<<"1", "2", ".", "5">>), PyStr(<<"n", "/", "a">>), PyNone, Absent},
        phone \in {PyNum(1000), PyNum(1250), PyStr(<<"7">>), PyNone, Absent},
        sms \in {PyNum(500), PyNum(0), PyList(<<>>), Absent},
        quotes \in {PyNum(200), PyNum(201), PyNum(0), PyStr(<<"n", "/", "a">>)},
        conv \in {PyNum(100), PyNum(0), Absent} }
    \cup FnTestRecords

\* Nothing returned: the call raised
NoReturn == [raised |-> TRUE, data |-> NoTemplateData]

\* The normalization of process_report (lines 134-188) for the fields of a
\* record, with the period of June 2025
CallNormalize ==
    /\ fcall = NoCall
    /\ \E fields \in FnFields :
          fcall' = [fn |-> "normalize", arg |-> fields,
                    ret |-> IF NormalizeRaises(fields) THEN NoReturn
                            ELSE [raised |-> FALSE,
                                  data |-> template_data_of(fields, June1, June30)]]
    /\ UNCHANGED pipeline

\* Values of the 'Client Name' field as a lookup returns them (lists), and
\* texts with spaces around and inside
FnClientNames ==
    FnClients
    \cup { PyList(<<>>),
           PyList(<< <<>> >>),
           PyList(<< <<>>, <<>> >>),
           PyList(<< <<"J", "a", "n", "e">>, <<"D", "o", "e">> >>),
           PyList(<< <<>>, <<"D", "o", "e">> >>),
           PyList(<< JaneDoe, <<"J", "r">> >>),
           PyStr(<<>>),
           PyStr(<<" ", " ">>),
           PyStr(<<" ">> \o JaneDoe \o <<" ">>),
           PyStr(<<"J", "a", "n", "e", " ", " ", "D", "o", "e">>),
           PyStr(<<"D", "o", "e">>) }

\* The filename process_report builds (lines 199-209) from the client name
\* of the record and the report_month of the period
CallFilename ==
    /\ fcall = NoCall
    /\ \E client \in FnClientNames, per \in FnPeriods :
          LET month == report_month(per[1], per[2])
          IN  fcall' = [fn |-> "filename", arg |-> <<client, month>>,
                        ret |-> filename_of(client, month)]
    /\ UNCHANGED pipeline

\* metrics.get(key, default)
DictGet(metrics, key, default) ==
    IF key \in DOMAIN metrics THEN metrics[key] ELSE default

\* The keys generate_report and _generate_metric_cards read
CardKeys == {"Clicks", "Conversions", "Cost", "Phone Clicks", "SMS Clicks", "Quote Starts"}

\* A value read by the template is no number: its format or its comparison
\* with 0 raises
CardsRaise(metrics) ==
    \E key \in CardKeys : DictGet(metrics, key, PyNum(0)).t # "num"

\* The digits of a natural number in groups of three
RECURSIVE Thousands(_)
Thousands(k) ==
    IF k < 1000 THEN NatChars(k, 1)
    ELSE Thousands(k \div 1000) \o <<",">> \o NatChars(k % 1000, 3)

Sign(n) == IF n < 0 THEN <<"-">> ELSE <<>>

Abs(n) == IF n < 0 THEN -n ELSE n

\* f"{v:,}" of a number in hundredths: an int, or a float with one or two
\* decimals
FormatCount(v) ==
    LET frac == Abs(v.n) % 100
    IN  Sign(v.n) \o Thousands(Abs(v.n) \div 100)
        \o (IF frac = 0 THEN <<>>
            ELSE IF frac % 10 = 0 THEN <<".">> \o NatChars(frac \div 10, 1)
            ELSE <<".">> \o NatChars(frac, 2))

\* f"${n:,.2f}" of n hundredths
FormatMoney(n) ==
    <<"$">> \o Sign(n) \o Thousands(Abs(n) \div 100) \o <<".">> \o NatChars(Abs(n) % 100, 2)

\* f"${n:.2f}" of n hundredths
FormatMoneyPlain(n) ==
    <<"$">> \o Sign(n) \o NatChars(Abs(n) \div 100, 1) \o <<".">> \o NatChars(Abs(n) % 100, 2)

\* f"{t:.1f}%" of t tenths
FormatPercent(t) ==
    Sign(t) \o NatChars(Abs(t) \div 10, 1) \o <<".">> \o NatChars(Abs(t) % 10, 1) \o <<"%">>

\* cost_per_click of generate_report, in hundredths
cost_per_click(metrics) ==
    IF DictGet(metrics, "Clicks", PyNum(0)).n > 0
    THEN Round2Div(DictGet(metrics, "Cost", PyNum(0)).n, DictGet(metrics, "Clicks", PyNum(100)).n)
    ELSE 0

\* conversion_rate of generate_report, in tenths of a percent
conversion_rate(metrics) ==
    IF DictGet(metrics, "Clicks", PyNum(0)).n > 0
    THEN LET conv   == DictGet(metrics, "Conversions", PyNum(0)).n
             clicks == DictGet(metrics, "Clicks", PyNum(100)).n
         IN  (2000 * conv + clicks) \div (2 * clicks)
    ELSE 0

\* cards_data of _generate_metric_cards: label and displayed value of the
\* eight cards, in the order of the document
_generate_metric_cards(metrics, cpc, rate) ==
    << <<"Total Clicks",    FormatCount(DictGet(metrics, "Clicks", PyNum(0)))>>,
       <<"Conversions",     FormatCount(DictGet(metrics, "Conversions", PyNum(0)))>>,
       <<"Total Cost",      FormatMoney(DictGet(metrics, "Cost", PyNum(0)).n)>>,
       <<"Cost Per Click",  FormatMoneyPlain(cpc)>>,
       <<"Phone Clicks",    FormatCount(DictGet(metrics, "Phone Clicks", PyNum(0)))>>,
       <<"SMS Clicks",      FormatCount(DictGet(metrics, "SMS Clicks", PyNum(0)))>>,
       <<"Quote Starts",    FormatCount(DictGet(metrics, "Quote Starts", PyNum(0)))>>,
       <<"Conversion Rate", FormatPercent(rate)>> >>

\* A metrics dictionary with the keys the docstring of generate_report names
DocumentedMetrics(clicks, conv, cost, phone, sms, quotes) ==
    ("Clicks" :> clicks) @@ ("Conversions" :> conv) @@ ("Cost" :> cost)
    @@ ("Phone Clicks" :> phone) @@ ("SMS Clicks" :> sms) @@ ("Quote Starts" :> quotes)

\* Metrics objects given to the template: the template_data process_report
\* builds for records of the tests and for a record without fields, and
\* dictionaries with the documented keys
FnMetrics ==
    { template_data_of(f, June1, June30) : f \in FnTestRecords \cup {NoFields} }
    \cup { template_data_of(Fields(PyNum(123456), PyNum(c), PyNum(c), PyNum(100), PyNum(0), Absent),
                            June1, June30) : c \in {0, 100, 99900, 100000, 123400} }
    \cup { DocumentedMetrics(PyNum(clicks), PyNum(conv), PyNum(cost), PyNum(1200), PyNum(700), PyNum(300)) :
             clicks \in {0, 100, 15000, 123400},
             conv \in {0, 400, 4500},
             cost \in {0, 5, 12345, 123456} }

\* The metric cards of generate_report(metrics, ...) (lines 35-41, 88-110)
CallMetricCards ==
    /\ fcall = NoCall
    /\ \E metrics \in FnMetrics :
          fcall' = [fn |-> "metric_cards", arg |-> metrics,
                    ret |-> IF CardsRaise(metrics) THEN <<>>
                            ELSE _generate_metric_cards(metrics, cost_per_click(metrics),
                                                        conversion_rate(metrics))]
    /\ UNCHANGED pipeline

NextFn ==
    \/ CallMetricCards
    \/ CallFilePath
    \/ CallFilename
    \/ CallValidate
    \/ CallReportMonth
    \/ CallNormalize

SpecFn == InitFn /\ [][NextFn]_vars

(* ----------------------------------------------------------------------- *)
(* Properties                                                              *)
(* ----------------------------------------------------------------------- *)

\* The external steps of a run, in the order process_report issues them.  The
\* publish step is the revision read followed by the write.
StepOrder ==
    <<"get_record_by_id", "generate_report", "get_file_sha", "put", "update_report_url">>

\* The run has issued step number i and the step failed (a revision read that
\* finds nothing is no failure of the publish step)
StepFailed(r, i) ==
    /\ i <= Len(calls[r])
    /\ calls[r][i].op # "get_file_sha"
    /\ ~calls[r][i].ok

\* The run failed at its back-write, after its publish succeeded
BackWriteFailed(r) == Len(calls[r]) = 5 /\ ~calls[r][5].ok

\* The store differs from a store a behaviour starts from in report-URL fields only
OnlyUrlsChanged ==
    \E s0 \in InitialStores :
        \A id \in RecIds : store[id] = [s0[id] EXCEPT !.url = store[id].url]

\* C1: in every run the external steps are issued in the order record fetch,
\* render, publish (read, then write), back-write; a step is issued only
\* when every earlier step of the run succeeded, and a failed step is the
\* last step of the run, which has then ended in a failure response.
C1_StepsInOrder ==
    \A r \in Runs :
        /\ Len(calls[r]) <= Len(StepOrder)
        /\ \A i \in 1..Len(calls[r]) :
              /\ calls[r][i].op = StepOrder[i]
              /\ StepFailed(r, i) =>
                    /\ i = Len(calls[r])
                    /\ pc[r] = "done"
                    /\ ~response[r].success

\* A run that failed at the write of its publish and issued no back-write
C1_Witness ==
    \E r \in Runs :
        /\ pc[r] = "done"
        /\ Len(calls[r]) = 4
        /\ StepFailed(r, 4)
        /\ calls[r][1].ok /\ calls[r][2].ok

\* The body of the delivery of run r, once handle_webhook has read it
Delivered(r) == pc[r] # "idle" /\ PayloadIsDict(request[r])

\* C2: when validate_webhook_payload returns a non-empty error list for the
\* body, the run has ended with a 400 response carrying the whole list, and
\* it issued no external step: no record read, no file-host read or write,
\* no record update.
C2_ValidationStopsPipeline ==
    \A r \in Runs :
        Delivered(r) =>
            LET v == validate_webhook_payload(request[r].body)
            IN  (~v.raised /\ v.errors # <<>>)
                => /\ pc[r] = "done"
                   /\ response[r].status = 400
                   /\ ~response[r].success
                   /\ response[r].errors = v.errors
                   /\ calls[r] = <<>>
                   /\ locals[r] = NoLocals

\* A delivery answered with more than one validation error, none of them a
\* missing field
C2_Witness ==
    \E r \in Runs :
        /\ pc[r] = "done"
        /\ response[r].status = 400
        /\ Len(response[r].errors) >= 2
        /\ request[r].body.rid # Absent
        /\ request[r].body.ds # Absent
        /\ request[r].body.de # Absent

\* C3: when the store holds no record for the event's record id, the run
\* ends in the error "Record not found" right after the read: it issues no
\* file-host request and no record update, and the store is as it was.
C3_NotFoundNoEffects ==
    \A r \in Runs :
        (/\ Len(calls[r]) >= 1
         /\ ~store[locals[r].report_id].exists)
        => /\ pc[r] = "done"
           /\ Len(calls[r]) = 1
           /\ ~response[r].success
           /\ response[r].status = 500
           /\ response[r].error = "Record not found"
           /\ response[r].arg = locals[r].report_id
           /\ locals[r].file_path \notin DOMAIN host
           /\ OnlyUrlsChanged
           /\ store[locals[r].report_id] = NoRecord

\* A run for a record id the store does not hold, which the store answered
C3_Witness ==
    \E r \in Runs :
        /\ pc[r] = "done"
        /\ Len(calls[r]) = 1
        /\ ~store[locals[r].report_id].exists
        /\ response[r].error = "Record not found"
        /\ faults = 0

\* C4: when the record update fails after the publish of the same run
\* succeeded, the run has ended with a failure response, its back-write was
\* its last external step (no further file-host request), and the path it
\* published to still holds a document an accepted write put there.
C4_NoRollback ==
    \A r \in Runs :
        BackWriteFailed(r)
        => /\ pc[r] = "done"
           /\ ~response[r].success
           /\ response[r].status = 500
           /\ calls[r][4].op = "put" /\ calls[r][4].ok
           /\ locals[r].file_path \in DOMAIN host
           /\ \E q \in Published :
                 /\ locals[q].file_path = locals[r].file_path
                 /\ host[locals[r].file_path] =
                       [content |-> locals[q].html_content,
                        sha |-> Sha(locals[q].html_content)]

\* A run whose back-write failed and whose own artifact is on the host
C4_Witness ==
    \E r \in Runs :
        /\ BackWriteFailed(r)
        /\ pc[r] = "done"
        /\ host[locals[r].file_path].content = locals[r].html_content

\* The run failed at the write of its publish
PublishFailed(r) == Len(calls[r]) = 4 /\ ~calls[r][4].ok

\* The run failed because the store has no record
NotFoundFailed(r) == Len(calls[r]) = 1 /\ ~calls[r][1].ok

\* C5: the failure response of a run whose record update failed after a
\* successful publish identifies the partial success (it carries the URL of
\* the artifact that exists) and differs from every response of a run that
\* failed at the publish or because the record was not found.
C5_PartialSuccessSurfaced ==
    \A r \in Runs :
        (BackWriteFailed(r) /\ pc[r] = "done")
        => /\ ~response[r].success
           /\ response[r].data.report_url = locals[r].report_url
           /\ \A q \in Runs :
                 (pc[q] = "done" /\ (PublishFailed(q) \/ NotFoundFailed(q)))
                 => response[q] # response[r]

\* C6: every delivery that handle_webhook has answered got a structured
\* response: 200 with success and data, or 400/500 with success false and
\* an error list or an error message; no exception reached the transport.
C6_AlwaysStructured ==
    \A r \in Runs :
        pc[r] = "done"
        => /\ response[r] # Escaped
           /\ response[r].status \in {200, 400, 500}
           /\ response[r].success = (response[r].status = 200)
           /\ response[r].success => response[r].data # NoData
           /\ ~response[r].success =>
                 (response[r].errors # <<>> \/ response[r].error # "")

\* A delivery whose body is JSON null (the validator raises on it), answered
C6_Witness ==
    \E r \in Runs :
        /\ pc[r] = "done"
        /\ request[r].body.kind = "null"
        /\ response[r].status = 500

\* The run issued all five steps and each of them succeeded
AllStepsSucceeded(r) ==
    /\ Len(calls[r]) = 5
    /\ \A i \in {1, 2, 4, 5} : calls[r][i].ok

\* C7: a run whose fetch, render, publish and back-write all succeeded has
\* ended with a success response whose report URL is the URL upload_report
\* returned (the public origin plus the path written), whose record id is
\* the event's record id and whose metrics are the template data the
\* renderer was given.
C7_SuccessResult ==
    \A r \in Runs :
        AllStepsSucceeded(r)
        => /\ pc[r] = "done"
           /\ response[r].success
           /\ response[r].status = 200
           /\ response[r].data.report_url = PagesBase \o calls[r][4].path
           /\ response[r].data.record_id = request[r].body.rid.s
           /\ response[r].data.metrics = locals[r].template_data
           /\ locals[r].html_content = Rendered(response[r].data.metrics)

\* A run that succeeded, for the record of the tests (cost 100, 18 leads)
C7_Witness ==
    \E r \in Runs :
        /\ AllStepsSucceeded(r)
        /\ response[r].success
        /\ response[r].data.metrics.total_leads = PyNum(1800)

\* The back-write of run r was carried out (the store did not refuse it)
BackWriteDone(r) ==
    /\ Len(calls[r]) = 5
    /\ pc[r] = "done"
    /\ response[r].error # "Connection aborted"

\* C8: once the back-write step of a run has been carried out, the record
\* whose id came in the event holds, in its report-URL field, a URL the
\* publisher returned to a run for that record, and nothing else in the
\* store has changed.
C8_BackWriteSetsUrlOnly ==
    /\ OnlyUrlsChanged
    /\ \A r \in Runs :
          BackWriteDone(r)
          => \E q \in Runs :
                /\ BackWriteDone(q)
                /\ locals[q].report_id = locals[r].report_id
                /\ store[locals[r].report_id].url = locals[q].report_url
    /\ \A id \in RecIds :
          store[id].url # <<>> =>
             \E q \in Runs : BackWriteDone(q) /\ locals[q].report_id = id

\* C9: the write of a publish comes right after the revision read of the same
\* run for the same path; it carries exactly the token that read returned,
\* and when the read returned none it carries none and is a create ("Add
\* report"), otherwise an update.
C9_WriteCarriesReadToken ==
    \A r \in Runs : \A i \in 1..Len(calls[r]) :
        calls[r][i].op = "put"
        => /\ i > 1
           /\ calls[r][i - 1].op = "get_file_sha"
           /\ calls[r][i - 1].path = calls[r][i].path
           /\ calls[r][i].sha = calls[r][i - 1].sha
           /\ locals[r].data.sha = locals[r].existing_sha
           /\ (calls[r][i - 1].sha = NoSha) = (locals[r].data.message = "Add report")
           /\ (calls[r][i - 1].sha # NoSha) = (locals[r].data.message = "Update report")
           /\ (calls[r][i - 1].ok /\ calls[r][i - 1].sha = NoSha /\ calls[r][i].ok)
                 => locals[r].put_status = 201

\* A write that carries the token its read found
C9_Witness ==
    \E r \in Runs :
        /\ Len(calls[r]) >= 4
        /\ calls[r][3].sha # NoSha
        /\ calls[r][4].sha = calls[r][3].sha
        /\ calls[r][4].ok

\* Run b published, after run a's write was accepted, the content and the
\* filename run a published; its read was answered, the host applied its
\* rules to its write, and no third run wrote to that path.
PublishedTwice(a, b) ==
    /\ a # b
    /\ PutAccepted(locals[a].put_status)
    /\ a \in locals[b].seen_writes
    /\ locals[b].filename = locals[a].filename
    /\ locals[b].html_content = locals[a].html_content
    /\ Len(calls[b]) >= 4
    /\ calls[b][3].ok
    /\ locals[b].put_status \notin HostFaults \cup {-1}
    /\ \A c \in Published \ {a, b} : locals[c].file_path # locals[a].file_path

\* C10: publishing the same content under the same filename twice in
\* sequence gives two accepted writes and the same URL; the second write
\* carries the revision token the first write produced, and the host holds
\* one file for the two, with that content.
C10_RepublishIdempotent ==
    \A a, b \in Runs :
        PublishedTwice(a, b)
        => /\ PutAccepted(locals[b].put_status)
           /\ locals[b].report_url = locals[a].report_url
           /\ locals[b].data.sha = Sha(locals[a].html_content)
           /\ locals[b].data.sha # NoSha
           /\ Cardinality({locals[a].file_path, locals[b].file_path} \cap DOMAIN host) = 1
           /\ host[locals[b].file_path].content = locals[a].html_content

\* Two publishes of one document in sequence, both accepted
C10_Witness ==
    \E a, b \in Runs :
        /\ PublishedTwice(a, b)
        /\ locals[b].put_status = 200
        /\ locals[a].put_status = 201

\* Runs a and b wrote to one path for one record, each read the revision
\* before the other sent its write, and the host applied its rules to both
RacingWrites(a, b) ==
    /\ a # b
    /\ a \in Written /\ b \in Written
    /\ locals[a].report_id = locals[b].report_id
    /\ locals[a].file_path = locals[b].file_path
    /\ a \notin locals[b].seen_writes
    /\ b \notin locals[a].seen_writes
    /\ locals[a].put_status \notin HostFaults \cup {-1}
    /\ locals[b].put_status \notin HostFaults \cup {-1}

Faulted(r) ==
    \/ Len(calls[r]) >= 1 /\ ~calls[r][1].ok /\ store[locals[r].report_id].exists
    \/ Len(calls[r]) >= 3 /\ ~calls[r][3].ok
    \/ locals[r].put_status \in HostFaults \cup {-1}
    \/ Len(calls[r]) = 5 /\ ~calls[r][5].ok /\ HasUpdateReportUrl(wiring)

\* Run b is a re-delivery of run a: the same record id and period, delivered
\* after run a had ended in success; no collaborator failed during b and no
\* other run wrote to the path.
Redelivered(a, b) ==
    /\ a # b
    /\ pc[b] = "done"
    /\ response[a].success
    /\ a \in locals[b].after_done
    /\ request[b].body.rid = request[a].body.rid
    /\ request[b].body.ds = request[a].body.ds
    /\ request[b].body.de = request[a].body.de
    /\ ~Faulted(b)
    /\ \A c \in Written \ {a, b} : locals[c].file_path # locals[a].file_path

\* C12: a re-delivery of a webhook that succeeded succeeds again; it writes
\* to the path the first delivery wrote to, as a replace of the file there,
\* returns the same report URL, and the host holds one file for the two.
C12_RedeliveryOverwrites ==
    \A a, b \in Runs :
        Redelivered(a, b)
        => /\ response[b].success
           /\ response[b].status = 200
           /\ locals[b].file_path = locals[a].file_path
           /\ calls[b][4].path = calls[a][4].path
           /\ locals[b].put_status = 200
           /\ locals[b].data.message = "Update report"
           /\ response[b].data.report_url = response[a].data.report_url
           /\ Cardinality({locals[a].file_path, locals[b].file_path} \cap DOMAIN host) = 1
           /\ host[locals[b].file_path].content = locals[b].html_content

\* A re-delivery that has been answered, after the first delivery's answer
C12_Witness ==
    \E a, b \in Runs :
        /\ Redelivered(a, b)
        /\ response[b].status = 200
        /\ store[locals[b].report_id].url = response[a].data.report_url

\* The characters a path segment must not hold
UnsafeChars == {"/", "\\", ":", "*", "?", "\"", "<", ">", "|", " "}

\* The filename segment of a path under GITHUB_REPORTS_PATH
Segment(file_path) == SubSeq(file_path, Len(GITHUB_REPORTS_PATH) + 2, Len(file_path))

\* C13: the filename segment of the path a filename is written to holds none
\* of the characters / \ : * ? " < > | and no space, ends with .html and is
\* at most 100 characters long.
C13_SegmentSafe ==
    fcall.fn = "file_path"
    => LET seg == Segment(fcall.ret)
       IN  /\ \A i \in 1..Len(seg) : seg[i] \notin UnsafeChars
           /\ EndsWith(seg, DotHtml)
           /\ Len(seg) <= 100

\* The host answered the write of run r with a status other than 200 and 201
WriteRefused(r) ==
    /\ r \in Written
    /\ locals[r].put_status # -1
    /\ locals[r].put_status \notin {200, 201}

\* C14: when the host answers the write with a status other than 200 and
\* 201, the run ends in a failure whose error is the publish error and
\* carries the host's status and the body of the host's answer.
C14_PublishErrorCarriesStatusAndBody ==
    \A r \in Runs :
        WriteRefused(r)
        => /\ pc[r] = "done"
           /\ ~response[r].success
           /\ response[r].error = "Failed to upload to GitHub"
           /\ response[r].code = locals[r].put_status
           /\ response[r].arg = locals[r].put_body

\* The number of times run r has called the external operation op
OpCount(r, op) == Cardinality({i \in 1..Len(calls[r]) : calls[r][i].op = op})

\* C15: a run that entered process_report and is past its fetch has read
\* the record exactly once; no run reads a revision, writes a file or
\* updates a record more than once, whatever the calls answered.
C15_OncePerRun ==
    \A r \in Runs :
        /\ (locals[r].report_id # <<>> /\ pc[r] # "fetch")
              => OpCount(r, "get_record_by_id") = 1
        /\ OpCount(r, "get_record_by_id") <= 1
        /\ OpCount(r, "get_file_sha") <= 1
        /\ OpCount(r, "put") <= 1
        /\ OpCount(r, "update_report_url") <= 1

\* A run whose write the host refused: it has ended, with one revision read,
\* one write and no record update
C15_Witness ==
    \E r \in Runs :
        /\ pc[r] = "done"
        /\ OpCount(r, "get_file_sha") = 1
        /\ OpCount(r, "put") = 1
        /\ WriteRefused(r)
        /\ OpCount(r, "update_report_url") = 0

\* chars is a calendar date written YYYY-MM-DD
IsYMD(chars) ==
    /\ Len(chars) = 10
    /\ chars[5] = "-" /\ chars[8] = "-"
    /\ \A i \in {1, 2, 3, 4, 6, 7, 9, 10} : IsDigit(chars[i])
    /\ LET y == DigitsVal(SubSeq(chars, 1, 4))
           m == DigitsVal(SubSeq(chars, 6, 7))
           d == DigitsVal(SubSeq(chars, 9, 10))
       IN  y >= 1 /\ m \in 1..12 /\ d >= 1 /\ d <= DaysInMonth(y, m)

\* The date a YYYY-MM-DD text names
YMD(chars) ==
    [ok |-> TRUE, y |-> DigitsVal(SubSeq(chars, 1, 4)),
     m |-> DigitsVal(SubSeq(chars, 6, 7)), d |-> DigitsVal(SubSeq(chars, 9, 10))]

\* The value v of a present date field is not a date in YYYY-MM-DD form
NotADate(v) == v # Absent /\ ~(v.t = "str" /\ IsYMD(v.s))

\* The value v of a present array field is not a non-empty array
NotAnArray(v) == v # Absent /\ ~(v.t = "list" /\ Len(v.l) > 0)

\* The rules the body b violates, each by the error that reports it
ViolatedRules(b) ==
    {"Missing required field: MySFDomainReportRecordID" : x \in {y \in {1} : b.rid = Absent}}
    \cup {"Missing required field: DateStart" : x \in {y \in {1} : b.ds = Absent}}
    \cup {"Missing required field: DateEnd" : x \in {y \in {1} : b.de = Absent}}
    \cup {"Invalid MySFDomainReportRecordID format" :
             x \in {y \in {1} : b.rid # Absent
                                  /\ ~(b.rid.t = "str" /\ StartsWith(b.rid.s, <<"r", "e", "c">>))}}
    \cup {"Invalid date format for DateStart. Expected: YYYY-MM-DD" :
             x \in {y \in {1} : NotADate(b.ds)}}
    \cup {"Invalid date format for DateEnd. Expected: YYYY-MM-DD" :
             x \in {y \in {1} : NotADate(b.de)}}
    \cup {"DateStart must be before or equal to DateEnd" :
             x \in {y \in {1} : /\ b.ds # Absent /\ b.de # Absent
                                  /\ ~NotADate(b.ds) /\ ~NotADate(b.de)
                                  /\ DateAfter(YMD(b.ds.s), YMD(b.de.s))}}
    \cup {IF b.acct.t = "list" THEN "AccountID array cannot be empty"
                               ELSE "AccountID must be an array" :
             x \in {y \in {1} : NotAnArray(b.acct)}}
    \cup {IF b.carrier.t = "list" THEN "CarrierCompany array cannot be empty"
                                  ELSE "CarrierCompany must be an array" :
             x \in {y \in {1} : NotAnArray(b.carrier)}}

\* C16: for every body that is a dict, validate_webhook_payload returns a
\* list that has an entry for exactly the rules the body violates (missing
\* required field, record id, date form of each date, date order, array
\* fields), each once; the list is empty exactly when no rule is violated.
C16_AllRulesCollected ==
    (fcall.fn = "validate" /\ fcall.arg.kind = "dict")
    => /\ ~fcall.ret.raised
       /\ {fcall.ret.errors[i] : i \in 1..Len(fcall.ret.errors)} = ViolatedRules(fcall.arg)
       /\ Len(fcall.ret.errors) = Cardinality(ViolatedRules(fcall.arg))

\* C17: validate_webhook_payload never raises, whatever the body is: it
\* returns a list.
C17_ValidatorNeverRaises ==
    fcall.fn = "validate" => ~fcall.ret.raised

\* The last day of month m of year y: 29 February in leap years, 28 February
\* otherwise, 30 for April, June, September and November, 31 for the others
LastDayOf(y, m) ==
    IF m = 2
    THEN (IF y % 400 = 0 \/ (y % 4 = 0 /\ y % 100 # 0) THEN 29 ELSE 28)
    ELSE <<31, 0, 31, 30, 31, 30, 31, 31, 30, 31, 30, 31>>[m]

\* Two digits, four digits
Pad2(k) == <<Digits[(k \div 10) + 1], Digits[(k % 10) + 1]>>

Pad4(k) == Pad2(k \div 100) \o Pad2(k % 100)

\* MM-DD-YYYY
PaddedMDY(dt) == Pad2(dt.m) \o <<"-">> \o Pad2(dt.d) \o <<"-">> \o Pad4(dt.y)

\* The period from start to end is one whole calendar month
WholeMonth(start, end) ==
    /\ start.d = 1
    /\ end.y = start.y
    /\ end.m = start.m
    /\ end.d = LastDayOf(start.y, start.m)

\* C18: for calendar dates start <= end the label is the month name and the
\* four-digit year of start exactly when the period is one whole calendar
\* month, and otherwise MM-DD-YYYY of start, a hyphen, MM-DD-YYYY of end.
C18_PeriodLabel ==
    fcall.fn = "report_month"
    => LET start == fcall.arg[1]
           end   == fcall.arg[2]
       IN  fcall.ret = IF WholeMonth(start, end)
                       THEN MonthNames[start.m] \o <<" ">> \o Pad4(start.y)
                       ELSE PaddedMDY(start) \o <<"-">> \o PaddedMDY(end)

\* The label of 1 to 31 December 2025
C18_Witness ==
    /\ fcall.fn = "report_month"
    /\ fcall.arg[1] = [ok |-> TRUE, y |-> 2025, m |-> 12, d |-> 1]
    /\ fcall.arg[2] = [ok |-> TRUE, y |-> 2025, m |-> 12, d |-> 31]
    /\ fcall.ret = MonthNames[12] \o <<" ", "2", "0", "2", "5">>

\* The five metrics, by their key in the fields of the model and in template_data
Metrics == {"cost", "phone_clicks", "sms_clicks", "quote_starts", "conversions"}

\* The smallest integer not below n hundredths
CeilingOf(n) ==
    CHOOSE k \in ((n \div 100) - 1)..((n \div 100) + 1) : 100 * k >= n /\ 100 * (k - 1) < n

\* C19: when the normalization returns, every metric whose raw value is a
\* number or numeric text is the smallest integer not below that value: a
\* whole value unchanged, a fractional one rounded up.
C19_MetricsAreCeilings ==
    (fcall.fn = "normalize" /\ ~fcall.ret.raised)
    => \A k \in Metrics :
          LET raw == fcall.arg[k]
          IN  IsFloatable(raw)
              => /\ fcall.ret.data[k] = PyNum(100 * CeilingOf(FloatOf(raw)))
                 /\ fcall.ret.data[k].n >= FloatOf(raw)
                 /\ (FloatOf(raw) % 100 = 0 => fcall.ret.data[k].n = FloatOf(raw))

\* A record with a fractional cost, a fractional count, a negative and a
\* numeric text, normalized
C19_Witness ==
    /\ fcall.fn = "normalize"
    /\ ~fcall.ret.raised
    /\ fcall.arg.cost = PyNum(12345) /\ fcall.ret.data.cost = PyNum(12400)
    /\ fcall.arg.phone_clicks = PyNum(1250) /\ fcall.ret.data.phone_clicks = PyNum(1300)
    /\ fcall.arg.quote_starts = PyNum(201) /\ fcall.ret.data.quote_starts = PyNum(300)

\* C20: a run that fetched its record does not end at the normalization,
\* and every metric whose raw value is missing or is no number is 0 in the
\* data given to the renderer.
C20_MalformedMetricBecomesZero ==
    \A r \in Runs :
        (Len(calls[r]) >= 1 /\ calls[r][1].ok)
        => /\ ~(pc[r] = "done" /\ Len(calls[r]) = 1)
           /\ \A k \in Metrics :
                 ~IsFloatable(GetOrZero(locals[r].fields[k]))
                 => locals[r].template_data[k] = PyNum(0)

\* The four lead counts, by their key
Leads == {"quote_starts", "phone_clicks", "sms_clicks", "conversions"}

\* Every one of the five metrics of the data is a whole number
AllRounded(data) == \A k \in Metrics : data[k].t = "num" /\ data[k].n % 100 = 0

\* The smallest integer not below a / b, for b > 0
CeilDiv(a, b) == -((-a) \div b)

\* C21: when the five rounded metrics are whole numbers and total_leads, the
\* sum of the four lead counts, is above 0, cost_per_lead is the smallest
\* integer not below cost / total_leads.
C21_CostPerLeadIsCeiling ==
    LET data == fcall.ret.data
    IN  (/\ fcall.fn = "normalize" /\ ~fcall.ret.raised
         /\ AllRounded(data)
         /\ data.total_leads.n > 0)
        => /\ data.total_leads.n = data.quote_starts.n + data.phone_clicks.n
                                   + data.sms_clicks.n + data.conversions.n
           /\ data.cost_per_lead = PyNum(100 * CeilDiv(data.cost.n, data.total_leads.n))

\* The sum of the ceilings of the four lead counts of a record is 0
NoLeads(fields) ==
    /\ \A k \in Leads : IsFloatable(GetOrZero(fields[k]))
    /\ CeilingOf(FloatOf(GetOrZero(fields.quote_starts)))
         + CeilingOf(FloatOf(GetOrZero(fields.phone_clicks)))
         + CeilingOf(FloatOf(GetOrZero(fields.sms_clicks)))
         + CeilingOf(FloatOf(GetOrZero(fields.conversions))) = 0

\* C22: for a record whose lead counts sum to 0 the normalization returns,
\* with total_leads 0 and cost_per_lead 0, whatever the cost is.
C22_ZeroLeadsZeroCostPerLead ==
    (fcall.fn = "normalize" /\ NoLeads(fcall.arg))
    => /\ ~fcall.ret.raised
       /\ fcall.ret.data.total_leads = PyNum(0)
       /\ fcall.ret.data.cost_per_lead = PyNum(0)

\* A record with a cost of 123.45 and no leads, normalized
C22_Witness ==
    /\ fcall.fn = "normalize"
    /\ NoLeads(fcall.arg)
    /\ fcall.arg.cost = PyNum(12345)
    /\ fcall.ret.data.cost = PyNum(12400)
    /\ fcall.ret.data.cost_per_lead = PyNum(0)

\* The record of test_variable_mapping_and_template_data
TestRecord ==
    Fields(PyNum(20000), PyNum(2000), PyNum(1000), PyNum(400), PyNum(200), Absent)

\* C23: for the record with cost 200, phone clicks 20, SMS clicks 10, quote
\* starts 4 and conversions 2 over June 2025, the data given to the template
\* has the five metrics unchanged, report_month 'June 2025' and a
\* cost_per_lead of cost / conversions = 100.
C23_CostPerLeadByConversions ==
    (fcall.fn = "normalize" /\ fcall.arg = TestRecord)
    => /\ ~fcall.ret.raised
       /\ \A k \in Metrics : fcall.ret.data[k] = TestRecord[k]
       /\ fcall.ret.data.report_month = MonthNames[6] \o <<" ", "2", "0", "2", "5">>
       /\ fcall.ret.data.cost_per_lead.n * fcall.ret.data.conversions.n
            = 100 * fcall.ret.data.cost.n
       /\ fcall.ret.data.cost_per_lead = PyNum(10000)

\* The numeric fields of the data given to the renderer
NumericFields == Metrics \cup {"total_leads", "cost_per_lead"}

\* v is an integer of Python, 0 or above
NonNegativeInt(v) == v.t = "num" /\ v.n % 100 = 0 /\ v.n >= 0

\* C24: when the normalization returns, so that the run goes on to the
\* renderer, each of cost, phone_clicks, sms_clicks, quote_starts,
\* conversions, total_leads and cost_per_lead is a non-negative integer.
C24_MetricsNonNegativeIntegers ==
    (fcall.fn = "normalize" /\ ~fcall.ret.raised)
    => \A k \in NumericFields : NonNegativeInt(fcall.ret.data[k])

\* The position after the last whitespace character of chars, 0 if none
LastWhitespace(chars) ==
    LET ws == {i \in 1..Len(chars) : chars[i] \in Whitespace}
    IN  IF ws = {} THEN 0 ELSE CHOOSE i \in ws : \A j \in ws : j <= i

\* The last whitespace-delimited token of a trimmed text
LastToken(chars) == SubSeq(chars, LastWhitespace(chars) + 1, Len(chars))

\* The client name before the surname is taken: the non-empty elements of a
\* list joined by single spaces, a text as it is, nothing when missing
JoinedName(v) ==
    IF v = Absent THEN <<>>
    ELSE IF v.t = "list" THEN JoinSpace(NonEmpty(v.l))
    ELSE v.s

\* The surname of a client name: 'Client' when the trimmed name is empty
Surname(v) ==
    IF Strip(JoinedName(v)) = <<>> THEN DefaultClient
    ELSE LastToken(Strip(JoinedName(v)))

\* C25: the filename is '{surname}_{label}.html', label being the period
\* label with each space replaced by a hyphen and surname the last
\* whitespace-delimited token of the client name (a list joined by single
\* spaces without its empty elements), or 'Client' when the name is missing,
\* an empty list, a list of empty elements, or empty after trimming.
C25_FilenameDerivation ==
    (fcall.fn = "filename" /\ fcall.arg[1].t \in {"absent", "list", "str"})
    => fcall.ret = Surname(fcall.arg[1]) \o <<"_">>
                    \o ReplaceChar(fcall.arg[2], " ", "-") \o DotHtml

\* Run r has called the renderer with the data of its normalization
RenderCalled(r) == Len(calls[r]) >= 2 /\ calls[r][2].op = "generate_report"

\* C26: a run that calls the renderer, for whatever metrics its
\* normalization produced, gets the document back and goes on to the publish
\* step: the render call does not fail and the run does not end there.
C26_RenderNeverFails ==
    \A r \in Runs :
        RenderCalled(r)
        => /\ calls[r][2].ok
           /\ locals[r].html_content = Rendered(locals[r].template_data)
           /\ ~(pc[r] = "done" /\ Len(calls[r]) = 2)

\* The value the card with a label displays, among cards_data
CardValue(cards, label) ==
    LET i == CHOOSE j \in 1..Len(cards) : cards[j][1] = label
    IN  cards[i][2]

\* The metrics object is one process_report passes: it has its keys
FromPipeline(metrics) == DOMAIN metrics = DOMAIN NoTemplateData

\* C27: for a metrics object passed by process_report, the cards of the
\* rendered report display its values: Conversions, Phone Clicks, SMS Clicks
\* and Quote Starts the counts, Total Cost the cost with thousands
\* separators and two decimals; a non-zero metric is not displayed as 0.
C27_CardsShowMetrics ==
    (fcall.fn = "metric_cards" /\ FromPipeline(fcall.arg) /\ AllRounded(fcall.arg))
    => /\ Len(fcall.ret) = 8
       /\ CardValue(fcall.ret, "Conversions") = FormatCount(fcall.arg.conversions)
       /\ CardValue(fcall.ret, "Total Cost") = FormatMoney(fcall.arg.cost.n)
       /\ CardValue(fcall.ret, "Phone Clicks") = FormatCount(fcall.arg.phone_clicks)
       /\ CardValue(fcall.ret, "SMS Clicks") = FormatCount(fcall.arg.sms_clicks)
       /\ CardValue(fcall.ret, "Quote Starts") = FormatCount(fcall.arg.quote_starts)

\* C28: a run answered with success has made its five calls, its write was
\* accepted by the host and its record update returned without error before
\* the answer; a run one of whose fetch, render, write or update failed is
\* never answered with success.
C28_SuccessOnlyAfterAllSteps ==
    \A r \in Runs :
        /\ response[r].success
           => /\ pc[r] = "done"
              /\ Len(calls[r]) = 5
              /\ calls[r][4].op = "put" /\ calls[r][4].ok
              /\ locals[r].put_status \in {200, 201}
              /\ calls[r][5].op = "update_report_url" /\ calls[r][5].ok
              /\ calls[r][1].ok /\ calls[r][2].ok
        /\ (\E i \in 1..5 : StepFailed(r, i)) => ~response[r].success

\* One run answered with success and another, refused by the host at its
\* write, answered with an error
C28_Witness ==
    \E a, b \in Runs :
        /\ response[a].success /\ Len(calls[a]) = 5
        /\ pc[b] = "done" /\ StepFailed(b, 4) /\ response[b].status = 500

\* The revision read of run r failed: the host did not answer 200 for a
\* file it holds, or the request raised
ReadFailed(r) ==
    Len(calls[r]) >= 3 /\ calls[r][3].op = "get_file_sha" /\ ~calls[r][3].ok

\* C29: after a failed revision read the run goes on as if no file were
\* there: no error is reported for the read, and the write it sends is a
\* create, without revision token, whether or not the host holds a file at
\* the path.
C29_FailedReadMeansCreate ==
    \A r \in Runs :
        ReadFailed(r)
        => /\ locals[r].existing_sha = NoSha
           /\ Len(calls[r]) = 3 => (pc[r] = "put" /\ response[r] = NoResponse)
           /\ Len(calls[r]) >= 4
              => /\ calls[r][4].op = "put"
                 /\ calls[r][4].sha = NoSha
                 /\ locals[r].data.sha = NoSha
                 /\ locals[r].data.message = "Add report"

\* A run whose read failed while the host held a file at its path, and whose
\* write without token the host refused with 422
C29_Witness ==
    \E r \in Runs :
        /\ ReadFailed(r)
        /\ Len(calls[r]) = 4
        /\ locals[r].at_put_sha # NoSha
        /\ locals[r].put_status = 422
        /\ response[r].error = "Failed to upload to GitHub"

\* Runs a and b have rendered reports for different records whose client
\* names end in the same token and whose period labels are equal
SameSurnameAndPeriod(a, b) ==
    /\ a # b
    /\ Len(calls[a]) >= 2 /\ calls[a][2].ok
    /\ Len(calls[b]) >= 2 /\ calls[b][2].ok
    /\ locals[a].report_id # locals[b].report_id
    /\ last_name_of(locals[a].fields.client_name) = last_name_of(locals[b].fields.client_name)
    /\ locals[a].template_data.report_month = locals[b].template_data.report_month

\* Run b was received after run a had been answered with success, both
\* succeeded, and no third run wrote to the path of a
Followed(a, b) ==
    /\ response[a].success /\ response[b].success
    /\ a \in locals[b].after_done
    /\ \A c \in Written \ {a, b} : locals[c].file_path # locals[a].file_path

\* C30: two runs for different record ids, with client names ending in the
\* same token and equal period labels, write to the same path and, when they
\* succeed, return the same URL; the later of the two replaces the file of
\* the earlier one with its own document.
C30_PathIgnoresRecordId ==
    \A a, b \in Runs :
        SameSurnameAndPeriod(a, b)
        => /\ locals[a].file_path = locals[b].file_path
           /\ (Len(calls[a]) >= 4 /\ Len(calls[b]) >= 4)
              => calls[a][4].path = calls[b][4].path
           /\ (response[a].success /\ response[b].success)
              => response[a].data.report_url = response[b].data.report_url
           /\ Followed(a, b)
              => /\ locals[b].put_status = 200
                 /\ locals[b].data.message = "Update report"
                 /\ host[locals[a].file_path].content = locals[b].html_content

\* Reports for Jane Doe (rec1) and John Doe (rec2) for June 2025, the second
\* published over the first, the two documents being different
C30_Witness ==
    \E a, b \in Runs :
        /\ SameSurnameAndPeriod(a, b)
        /\ Followed(a, b)
        /\ locals[a].fields.client_name # locals[b].fields.client_name
        /\ locals[a].html_content # locals[b].html_content
        /\ host[locals[a].file_path].content = locals[b].html_content

====
